---- MODULE Spec2Model ----
(***************************************************************************)
(* A model of lab1-http-fileserver/src/server.py: the per-connection       *)
(* handler handle_request run by a pool of worker threads, the token       *)
(* bucket rate limiter, the shared hit counter with its two update         *)
(* disciplines, and the path resolver safe_join.                           *)
(*                                                                         *)
(* Representation.                                                         *)
(*  - A string is a sequence of lexemes.  A lexeme is a delimiter          *)
(*    character ("/", ".", "?", "#", "["), a percent escape ("%2e",       *)
(*    "%2f") or a run of ordinary characters ("a", "html", ...).           *)
(*  - Time is counted in ticks; TicksPerSec ticks make one second.         *)
(*    A token count is stored in units of 1/TicksPerSec token, so that     *)
(*    tokens + (now - last) * rate is exact integer arithmetic.            *)
(***************************************************************************)
EXTENDS Integers, Sequences, FiniteSets, TLC

\* ------------------------------------------------------------------ bounds

\* Worker threads of the pool (--workers).
NumWorkers == 2
\* Connections the clients open during a run of the model.
MaxConns == 2
\* The monotonic clock stops advancing at MaxTime ticks.
MaxTime == 2
\* Clock resolution.
TicksPerSec == 2
\* Longest raw request path enumerated by SpecPath, in lexemes.
MaxPathLen == 4

Workers == 1..NumWorkers
None == "None"

Min(a, b) == IF a <= b THEN a ELSE b
Max(a, b) == IF a >= b THEN a ELSE b

\* ------------------------------------------------------- string helpers

Slash == "/"
Dot == "."

StartsWith(s, p) == Len(s) >= Len(p) /\ SubSeq(s, 1, Len(p)) = p

\* Index of the first lexeme of s that is in set cs at or after i, or Len(s)+1.
RECURSIVE FindFrom(_, _, _)
FindFrom(s, cs, i) ==
    IF i > Len(s) THEN Len(s) + 1
    ELSE IF s[i] \in cs THEN i
    ELSE FindFrom(s, cs, i + 1)

\* str.split(sep): the pieces of s between occurrences of sep.
RECURSIVE SplitOn(_, _)
SplitOn(s, sep) ==
    LET i == FindFrom(s, {sep}, 1)
    IN  IF i > Len(s) THEN << s >>
        ELSE << SubSeq(s, 1, i - 1) >> \o SplitOn(SubSeq(s, i + 1, Len(s)), sep)

\* sep.join(comps)
RECURSIVE JoinOn(_, _)
JoinOn(comps, sep) ==
    IF comps = << >> THEN << >>
    ELSE IF Len(comps) = 1 THEN comps[1]
    ELSE comps[1] \o << sep >> \o JoinOn(Tail(comps), sep)

\* str.lstrip("/")
RECURSIVE LStripSlash(_)
LStripSlash(s) ==
    IF s # << >> /\ Head(s) = Slash THEN LStripSlash(Tail(s)) ELSE s

\* urllib.parse.urlparse(url) raises ValueError("Invalid IPv6 URL") when the
\* network location holds a "[" and no "]" (no lexeme is a "]").
UrlRaises(url) ==
    /\ StartsWith(url, << Slash, Slash >>)
    /\ \E i \in 3..(FindFrom(url, {Slash, "?", "#"}, 3) - 1) : url[i] = "["

\* urllib.parse.urlparse(url).path for a url without ":" or ";": a leading
\* "//" starts a network location that runs to the next "/", "?" or "#";
\* then the fragment and the query are cut off.
UrlPath(url) ==
    LET afterNetloc ==
            IF StartsWith(url, << Slash, Slash >>)
            THEN SubSeq(url, FindFrom(url, {Slash, "?", "#"}, 3), Len(url))
            ELSE url
        noFrag  == SubSeq(afterNetloc, 1, FindFrom(afterNetloc, {"#"}, 1) - 1)
        noQuery == SubSeq(noFrag, 1, FindFrom(noFrag, {"?"}, 1) - 1)
    IN  noQuery

\* urllib.parse.unquote: every percent escape becomes the character it encodes.
Unquote(s) ==
    [i \in 1..Len(s) |->
        IF s[i] = "%2e" THEN Dot
        ELSE IF s[i] = "%2f" THEN Slash
        ELSE s[i]]

DotDot == << Dot, Dot >>

\* The component loop of posixpath.normpath.
RECURSIVE NormComps(_, _, _)
NormComps(comps, new, isabs) ==
    IF comps = << >> THEN new
    ELSE LET c == Head(comps)
             rest == Tail(comps)
         IN  IF c = << >> \/ c = << Dot >> THEN NormComps(rest, new, isabs)
             ELSE IF c # DotDot
                       \/ (~isabs /\ new = << >>)
                       \/ (new # << >> /\ new[Len(new)] = DotDot)
                  THEN NormComps(rest, Append(new, c), isabs)
             ELSE IF new # << >>
                  THEN NormComps(rest, SubSeq(new, 1, Len(new) - 1), isabs)
             ELSE NormComps(rest, new, isabs)

\* posixpath.normpath.  POSIX keeps exactly two leading slashes.
NormPath(path) ==
    IF path = << >> THEN << Dot >>
    ELSE LET slashes ==
                 IF ~StartsWith(path, << Slash >>) THEN 0
                 ELSE IF StartsWith(path, << Slash, Slash >>)
                         /\ ~StartsWith(path, << Slash, Slash, Slash >>) THEN 2
                 ELSE 1
             comps == NormComps(SplitOn(path, Slash), << >>, slashes > 0)
             body == JoinOn(comps, Slash)
             out == [i \in 1..slashes |-> Slash] \o body
         IN  IF out = << >> THEN << Dot >> ELSE out

\* posixpath.join(a, b)
PathJoin(a, b) ==
    IF StartsWith(b, << Slash >>) THEN b
    ELSE IF a = << >> \/ a[Len(a)] = Slash THEN a \o b
    ELSE a \o << Slash >> \o b

\* Components of p that posixpath.commonpath compares.
RECURSIVE DropEmptyAndDot(_)
DropEmptyAndDot(comps) ==
    IF comps = << >> THEN << >>
    ELSE IF Head(comps) = << >> \/ Head(comps) = << Dot >>
         THEN DropEmptyAndDot(Tail(comps))
         ELSE << Head(comps) >> \o DropEmptyAndDot(Tail(comps))

RECURSIVE CommonPrefix(_, _)
CommonPrefix(a, b) ==
    IF a = << >> \/ b = << >> \/ Head(a) # Head(b) THEN << >>
    ELSE << Head(a) >> \o CommonPrefix(Tail(a), Tail(b))

\* posixpath.commonpath([a, b]) for two absolute paths.
CommonPath(a, b) ==
    << Slash >> \o JoinOn(CommonPrefix(DropEmptyAndDot(SplitOn(a, Slash)),
                                       DropEmptyAndDot(SplitOn(b, Slash))), Slash)

\* The served root, already absolute and normalized (serve: os.path.abspath).
Root == << Slash, "srv", Slash, "www" >>

\* safe_join without the containment check: a resolver that trusts the join.
SafeJoinUnchecked(root, url_path) ==
    LET path == Unquote(UrlPath(url_path))
        rel  == NormPath(LStripSlash(path))
    IN  NormPath(PathJoin(root, rel))

\* safe_join(root, url_path): the resolved absolute path, or None.
SafeJoin(root, url_path) ==
    LET path == Unquote(UrlPath(url_path))
        rel  == NormPath(LStripSlash(path))
        full == NormPath(PathJoin(root, rel))
    IN  IF CommonPath(root, full) # root THEN None ELSE full

\* -------------------------------------------------------------- filesystem

\* What lies on disk: directories, files, and the directories whose
\* enumeration the filesystem denies (os.scandir raises PermissionError).
FsDirs == { << Slash >>, << Slash, "srv" >>, Root,
            Root \o << Slash, "d" >>, Root \o << Slash, "p" >> }
FsFiles == { Root \o << Slash, "a", Dot, "html" >>,
             Root \o << Slash, "n", Dot, "txt" >>,
             Root \o << Slash, "a" >>,
             << Slash, "srv", Slash, "a" >>,
             << Slash, "srv", Slash, "s", Dot, "html" >> }
FsDenied == { Root \o << Slash, "p" >> }

Exists(p) == p \in FsDirs \cup FsFiles
IsDir(p) == p \in FsDirs

\* Index of the last Dot of s, or 0.
RECURSIVE LastDot(_, _)
LastDot(s, i) == IF i = 0 THEN 0 ELSE IF s[i] = Dot THEN i ELSE LastDot(s, i - 1)

\* os.path.splitext(p)[1]: from the last dot of the last component, unless
\* that component has nothing but dots before it.
SplitExt(p) ==
    LET comps == SplitOn(p, Slash)
        last == comps[Len(comps)]
        d == LastDot(last, Len(last))
    IN  IF d = 0 \/ \A i \in 1..d : last[i] = Dot THEN << >>
        ELSE SubSeq(last, d, Len(last))

\* str.lower() on the lexemes in use.
Lower(s) == [i \in 1..Len(s) |-> IF s[i] = "HTML" THEN "html" ELSE s[i]]

ALLOWED_MIME_AnyText == { << Dot, "html" >>, << Dot, "png" >>, << Dot, "pdf" >>,
                          << Dot, "txt" >> }
ALLOWED_MIME == { << Dot, "html" >>, << Dot, "png" >>, << Dot, "pdf" >> }

\* Index of the last Slash of s, or 0.
RECURSIVE LastSlash(_, _)
LastSlash(s, i) == IF i = 0 THEN 0 ELSE IF s[i] = Slash THEN i ELSE LastSlash(s, i - 1)

\* e.name of a directory entry, and the directory that holds it.
EntryName(p) == SubSeq(p, LastSlash(p, Len(p)) + 1, Len(p))
EntryDir(p) ==
    LET i == LastSlash(p, Len(p)) IN IF i <= 1 THEN << Slash >> ELSE SubSeq(p, 1, i - 1)

\* os.scandir(fs_path): the entries of a directory.
ScanDir(d) == { p \in FsDirs \cup FsFiles : p # << Slash >> /\ EntryDir(p) = d }

\* Lines 128 and 55: path if path.endswith("/") else path + "/".
WithSlash(p) == IF p # << >> /\ p[Len(p)] = Slash THEN p ELSE Append(p, Slash)

\* ------------------------------------------------------------- rate limiter

\* token_bucket_allow, line 72: limiting is off.
RateDisabledStrict(rate) == rate < 0
RateDisabled(rate) == rate <= 0

\* handle_request, line 117.
\* args.burst is << >> when --burst is not given, << b >> when it is.
BurstOf(a) == IF a.burst # << >> THEN a.burst[1] ELSE Max(1, a.rate)

\* A refill that is not capped at burst.
RefillUncapped(tokens, last, nowv, rate, burst) == tokens + (nowv - last) * rate
\* token_bucket_allow, line 78, in token units of 1/TicksPerSec.
RefillNoElapsed(tokens, last, nowv, rate, burst) ==
    Min(burst * TicksPerSec, tokens)
Refill(tokens, last, nowv, rate, burst) ==
    Min(burst * TicksPerSec, tokens + (nowv - last) * rate)

\* A bucket that forgets the refill of a denied call.
BucketStepDropsRefill(state, ip, nowv, rate, burst) ==
    LET old == IF ip \in DOMAIN state THEN state[ip]
               ELSE [tokens |-> burst * TicksPerSec, last |-> nowv]
        tokens == Refill(old.tokens, old.last, nowv, rate, burst)
    IN  IF tokens >= TicksPerSec
        THEN [allowed |-> TRUE,  entry |-> [tokens |-> tokens - TicksPerSec, last |-> nowv]]
        ELSE [allowed |-> FALSE, entry |-> [tokens |-> old.tokens, last |-> nowv]]
\* token_bucket_allow, lines 76-84: the entry stored and the answer returned.
BucketStep(state, ip, nowv, rate, burst) ==
    LET old == IF ip \in DOMAIN state THEN state[ip]
               ELSE [tokens |-> burst * TicksPerSec, last |-> nowv]
        tokens == Refill(old.tokens, old.last, nowv, rate, burst)
    IN  IF tokens >= TicksPerSec
        THEN [allowed |-> TRUE,  entry |-> [tokens |-> tokens - TicksPerSec, last |-> nowv]]
        ELSE [allowed |-> FALSE, entry |-> [tokens |-> tokens, last |-> nowv]]

\* dict store: state[ip] = entry
Store(state, k, v) == [x \in DOMAIN state \cup {k} |-> IF x = k THEN v ELSE state[x]]

\* dict.get(k, 0)
Get(state, k) == IF k \in DOMAIN state THEN state[k] ELSE 0

\* Line 55: the key a row of the listing looks its hits up under.
ListingKey(req_path, name) == WithSlash(req_path) \o name

\* dir_listing_html, lines 46-68: one row per entry of the directory; the
\* row of a file shows hit_counter.get(req_key, 0), the row of a directory
\* shows "-" (dir is TRUE and hits is unused).
dir_listing_html(counter, req_path, dir) ==
    { [name |-> EntryName(e), dir |-> IsDir(e),
       hits |-> IF IsDir(e) THEN 0 ELSE Get(counter, ListingKey(req_path, EntryName(e)))]
      : e \in ScanDir(dir) }

\* ------------------------------------------------------------------- state

VARIABLES
    args,          \* the parsed command line, fixed at startup
    toOpen,        \* connections the clients will still open
    now,           \* time.monotonic(), in ticks
    queue,         \* the pool's work queue: accepted (conn, addr), by addr[0]
    rl_state,      \* {ip: (tokens, last_time)}
    rl_lock,       \* holder of rl_lock, or 0
    hit_counter,   \* {request path: hits}
    counter_lock,  \* holder of counter_lock, or 0
    pc,            \* where each worker is in handle_request
    conn,          \* each worker's connection: peer address, open, responses written
    data,          \* bytes received: the request line's words, end-of-headers seen
    req,           \* method and path of the parsed request line
    tnow,          \* token_bucket_allow's local now
    current,       \* the counter value read
    fs_path,       \* safe_join's answer
    fs_log,        \* filesystem paths the current run has touched
    entered,       \* per key, handler runs that have begun its increment
    base,          \* per key, hit_counter and entered when the increments now
                   \* in flight (or the last ones) began with none in flight
    admitted       \* per (ip, sampled now), calls token_bucket_allow allowed

vars == << args, toOpen, now, queue, rl_state, rl_lock, hit_counter, counter_lock,
           pc, conn, data, req, tnow, current, fs_path, fs_log, entered, base,
           admitted >>

shared == << rl_state, rl_lock, hit_counter, counter_lock, entered, base, admitted >>
locals == << data, req, tnow, current, fs_path, fs_log >>
env == << args, toOpen, now, queue >>

IPs == { "ip1", "ip2" }
Methods == { "GET", "HEAD", "POST" }
Version == "HTTP/1.1"

\* data: the words of the request line received, whether the blank line
\* that ends the headers has arrived, whether the peer closed, and the
\* header line the buffer ends with (the lines before it are not told
\* apart).
NoData == [words |-> << >>, eoh |-> FALSE, eof |-> FALSE, hdr |-> None]
HeaderLines == { "X-A", "X-B" }
NoReq == [method |-> None, path |-> << >>]
\* The body of the response written so far: nothing, the fixed text of an
\* error answer, the bytes read from the file, or the rows of a listing.
NoBody == [kind |-> "none", rows |-> {}]
TextBody == [kind |-> "text", rows |-> {}]
FileBody == [kind |-> "file", rows |-> {}]
NoConn == [ip |-> None, open |-> FALSE, written |-> << >>, raised |-> FALSE,
           body |-> NoBody]

empty == [x \in {} |-> 0]

\* ------------------------------------------------------------ environment

\* serve, lines 174-176: accept a connection and submit it to the pool.
Accept(ip) ==
    /\ toOpen > 0
    /\ toOpen' = toOpen - 1
    /\ queue' = Append(queue, ip)
    /\ UNCHANGED << args, now, shared, pc, conn, locals >>

\* ThreadPoolExecutor: an idle worker takes the oldest queued task and
\* enters handle_request(conn, addr, root, args).
Start(w) ==
    /\ pc[w] = "idle"
    /\ queue # << >>
    /\ queue' = Tail(queue)
    /\ conn' = [conn EXCEPT ![w] = [ip |-> Head(queue), open |-> TRUE,
                                    written |-> << >>, raised |-> FALSE,
                                    body |-> NoBody]]
    /\ pc' = [pc EXCEPT ![w] = "recv"]
    /\ UNCHANGED << args, toOpen, now, shared, locals >>

\* The worker is done with the task: the handler returned or raised, the
\* task's references to conn are dropped and the socket object is collected.
Reclaim(w) ==
    /\ pc[w] = "returned"
    /\ pc' = [pc EXCEPT ![w] = "idle"]
    /\ conn' = [conn EXCEPT ![w] = NoConn]
    /\ data' = [data EXCEPT ![w] = NoData]
    /\ req' = [req EXCEPT ![w] = NoReq]
    /\ tnow' = [tnow EXCEPT ![w] = 0]
    /\ current' = [current EXCEPT ![w] = 0]
    /\ fs_path' = [fs_path EXCEPT ![w] = None]
    /\ fs_log' = [fs_log EXCEPT ![w] = {}]
    /\ UNCHANGED << env, shared >>

\* time.monotonic() advances.
Tick ==
    /\ now < MaxTime
    /\ now' = now + 1
    /\ UNCHANGED << args, toOpen, queue, shared, pc, conn, locals >>

\* ---------------------------------------------------------- handle_request

\* conn.sendall(build_response(code, reason, headers, body)) followed by
\* return.
SendBody(w, code, body) ==
    /\ conn' = [conn EXCEPT ![w].written = Append(@, code), ![w].body = body]
    /\ pc' = [pc EXCEPT ![w] = "returned"]

\* The answers with a fixed text: 400, 404, 405, 429.
SendAndReturn(w, code) == SendBody(w, code, TextBody)

\* An exception leaves handle_request: nothing is written.
RaiseOut(w) ==
    /\ conn' = [conn EXCEPT ![w].raised = TRUE]
    /\ pc' = [pc EXCEPT ![w] = "returned"]

\* Lines 90-93: recv returns the request line, with or without the blank
\* line that ends the headers.
RecvLine(w, lines, marks) ==
    /\ pc[w] = "recv"
    /\ data[w].words = << >>
    /\ \E l \in lines, e \in marks :
          /\ data' = [data EXCEPT ![w] = [words |-> l, eoh |-> e, eof |-> FALSE,
                                          hdr |-> data[w].hdr]]
          /\ pc' = [pc EXCEPT ![w] = IF e THEN "parse" ELSE "recv"]
    /\ UNCHANGED << env, shared, conn, req, tnow, current, fs_path, fs_log >>

\* Lines 90-93: recv returns, within the timeout, one more header line and
\* no blank line: data grows and the loop goes round again.
RecvMore(w) ==
    /\ pc[w] = "recv"
    /\ \E h \in HeaderLines : data' = [data EXCEPT ![w].hdr = h]
    /\ UNCHANGED << env, shared, pc, conn, req, tnow, current, fs_path, fs_log >>
\* Lines 90-93: recv returns the rest of the headers, the marker included.
RecvMarker(w) ==
    /\ pc[w] = "recv"
    /\ data[w].words # << >>
    /\ data' = [data EXCEPT ![w].eoh = TRUE]
    /\ pc' = [pc EXCEPT ![w] = "parse"]
    /\ UNCHANGED << env, shared, conn, req, tnow, current, fs_path, fs_log >>

\* Line 92: recv returns b"" (the peer closed); the loop breaks.
RecvEof(w) ==
    /\ pc[w] = "recv"
    /\ data' = [data EXCEPT ![w].eof = TRUE]
    /\ pc' = [pc EXCEPT ![w] = "parse"]
    /\ UNCHANGED << env, shared, conn, req, tnow, current, fs_path, fs_log >>

\* Lines 94-95: socket.timeout; the handler returns.
RecvTimeout(w) ==
    /\ pc[w] = "recv"
    /\ pc' = [pc EXCEPT ![w] = "returned"]
    /\ UNCHANGED << env, shared, conn, locals >>

\* Lines 97-103: split the request line into method, path, version.
Parse(w) ==
    /\ pc[w] = "parse"
    /\ IF Len(data[w].words) # 3
       THEN /\ SendAndReturn(w, 400)
            /\ UNCHANGED req
       ELSE /\ req' = [req EXCEPT ![w] = [method |-> data[w].words[1],
                                          path |-> data[w].words[2]]]
            /\ pc' = [pc EXCEPT ![w] = IF args.delay > 0 THEN "delay" ELSE "method"]
            /\ UNCHANGED conn
    /\ UNCHANGED << env, shared, data, tnow, current, fs_path, fs_log >>

\* Lines 106-107: time.sleep(args.delay).
Delay(w) ==
    /\ pc[w] = "delay"
    /\ pc' = [pc EXCEPT ![w] = "method"]
    /\ UNCHANGED << env, shared, conn, locals >>

\* Line 110.
MethodAllowedAny(m) == TRUE
MethodAllowed(m) == m \in { "GET", "HEAD" }

\* Lines 110-113.
MethodCheck(w) ==
    /\ pc[w] = "method"
    /\ IF ~MethodAllowed(req[w].method)
       THEN SendAndReturn(w, 405)
       ELSE /\ pc' = [pc EXCEPT ![w] = "rate"]
            /\ UNCHANGED conn
    /\ UNCHANGED << env, shared, locals >>

\* Lines 116-118 and token_bucket_allow lines 72-74: the bypass, or the
\* timestamp read before rl_lock is taken.
RateEnter(w) ==
    /\ pc[w] = "rate"
    /\ IF RateDisabled(args.rate)
       THEN /\ pc' = [pc EXCEPT ![w] = "resolve"]
            /\ UNCHANGED tnow
       ELSE /\ tnow' = [tnow EXCEPT ![w] = now]
            /\ pc' = [pc EXCEPT ![w] = "rl_wait"]
    /\ UNCHANGED << env, shared, conn, data, req, current, fs_path, fs_log >>

\* Line 75: with rl_lock.
RateAcquire(w) ==
    /\ pc[w] = "rl_wait"
    /\ rl_lock = 0
    /\ rl_lock' = w
    /\ pc' = [pc EXCEPT ![w] = "rl_crit"]
    /\ UNCHANGED << env, rl_state, hit_counter, counter_lock, entered, base, admitted,
                    conn, locals >>

\* A bucket update that leaves by the denied return with rl_lock held.
RateUpdateKeepsLock(w) ==
    /\ pc[w] = "rl_crit"
    /\ LET r == BucketStep(rl_state, conn[w].ip, tnow[w], args.rate, BurstOf(args))
       IN  /\ rl_state' = Store(rl_state, conn[w].ip, r.entry)
           /\ IF r.allowed
              THEN /\ pc' = [pc EXCEPT ![w] = "resolve"]
                   /\ rl_lock' = 0
                   /\ admitted' = Store(admitted, << conn[w].ip, tnow[w] >>,
                                        Get(admitted, << conn[w].ip, tnow[w] >>) + 1)
                   /\ UNCHANGED conn
              ELSE /\ SendAndReturn(w, 429)
                   /\ UNCHANGED << rl_lock, admitted >>
    /\ UNCHANGED << env, hit_counter, counter_lock, entered, base, locals >>
\* Lines 76-84 and 118-120: the bucket update, the release of rl_lock and
\* the handler's answer to a denial.
RateUpdate(w) ==
    /\ pc[w] = "rl_crit"
    /\ LET r == BucketStep(rl_state, conn[w].ip, tnow[w], args.rate, BurstOf(args))
       IN  /\ rl_state' = Store(rl_state, conn[w].ip, r.entry)
           /\ rl_lock' = 0
           /\ IF r.allowed
              THEN /\ pc' = [pc EXCEPT ![w] = "resolve"]
                   /\ admitted' = Store(admitted, << conn[w].ip, tnow[w] >>,
                                        Get(admitted, << conn[w].ip, tnow[w] >>) + 1)
                   /\ UNCHANGED conn
              ELSE /\ SendAndReturn(w, 429)
                   /\ UNCHANGED admitted
    /\ UNCHANGED << env, hit_counter, counter_lock, entered, base, locals >>

\* Lines 122-127: safe_join, os.path.exists, os.path.isdir.  The ValueError
\* of urlparse leaves safe_join and the handler.
Resolve(w) ==
    /\ pc[w] = "resolve"
    /\ IF UrlRaises(req[w].path)
       THEN /\ RaiseOut(w)
            /\ UNCHANGED << fs_path, fs_log >>
       ELSE LET p == SafeJoin(Root, req[w].path)
            IN  /\ fs_path' = [fs_path EXCEPT ![w] = p]
                /\ IF p = None
                   THEN /\ SendAndReturn(w, 404)
                        /\ UNCHANGED fs_log
                   ELSE /\ fs_log' = [fs_log EXCEPT ![w] = @ \cup {p}]
                        /\ IF ~Exists(p) THEN SendAndReturn(w, 404)
                           ELSE /\ pc' = [pc EXCEPT ![w] =
                                            IF IsDir(p) THEN "listing" ELSE "count"]
                                /\ UNCHANGED conn
    /\ UNCHANGED << env, shared, data, req, tnow, current >>

\* Lines 127-132: dir_listing_html and the 200 answer; os.scandir raises
\* when the filesystem denies the enumeration, and a HEAD drops the body
\* after it was built.
Listing(w) ==
    /\ pc[w] = "listing"
    /\ IF fs_path[w] \in FsDenied
       THEN RaiseOut(w)
       ELSE SendBody(w, 200,
                IF req[w].method = "GET"
                THEN [kind |-> "listing",
                      rows |-> dir_listing_html(hit_counter, WithSlash(req[w].path),
                                                fs_path[w])]
                ELSE NoBody)
    /\ UNCHANGED << env, shared, locals >>

\* Line 136: the key a served file is counted under.
ReqKey(path) == path

\* Line 137: which branch updates the counter.
UsesLockNever(mode) == FALSE
UsesLockAlways(mode) == TRUE
UsesLock(mode) == mode # "naive"

\* Workers between the read and the write of key k's increment.
InFlight(k) ==
    { w \in Workers : pc[w] \in { "c_read", "c_sleep", "c_write" } /\ ReqKey(req[w].path) = k }

\* A run begins the increment of key k.
Enter(k) ==
    /\ entered' = Store(entered, k, Get(entered, k) + 1)
    /\ base' = IF InFlight(k) = {}
               THEN Store(base, k, [value |-> Get(hit_counter, k),
                                    entered |-> Get(entered, k)])
               ELSE base

\* Line 143: with counter_lock.
CounterAcquire(w) ==
    /\ pc[w] = "count"
    /\ UsesLock(args.counter_mode)
    /\ counter_lock = 0
    /\ counter_lock' = w
    /\ Enter(ReqKey(req[w].path))
    /\ pc' = [pc EXCEPT ![w] = "c_read"]
    /\ UNCHANGED << env, rl_state, rl_lock, hit_counter, admitted, conn, locals >>

\* Lines 139 and 144: current = hit_counter.get(req_key, 0).
CounterRead(w) ==
    /\ \/ pc[w] = "c_read" /\ UNCHANGED << entered, base >>
       \/ pc[w] = "count" /\ ~UsesLock(args.counter_mode) /\ Enter(ReqKey(req[w].path))
    /\ current' = [current EXCEPT ![w] = Get(hit_counter, ReqKey(req[w].path))]
    /\ pc' = [pc EXCEPT ![w] = IF args.counter_sleep > 0 THEN "c_sleep" ELSE "c_write"]
    /\ UNCHANGED << env, rl_state, rl_lock, hit_counter, counter_lock, admitted, conn,
                    data, req, tnow, fs_path, fs_log >>

\* Lines 140 and 145: time.sleep(args.counter_sleep).
CounterSleep(w) ==
    /\ pc[w] = "c_sleep"
    /\ pc' = [pc EXCEPT ![w] = "c_write"]
    /\ UNCHANGED << env, shared, conn, locals >>

\* A write that stores the value read, not its successor.
CounterWriteStale(w) ==
    /\ pc[w] = "c_write"
    /\ hit_counter' = Store(hit_counter, ReqKey(req[w].path), current[w])
    /\ counter_lock' = IF counter_lock = w THEN 0 ELSE counter_lock
    /\ pc' = [pc EXCEPT ![w] = "serve"]
    /\ UNCHANGED << env, rl_state, rl_lock, entered, base, admitted, conn, locals >>
\* Lines 141 and 146: hit_counter[req_key] = current + 1, and the release
\* of counter_lock at the end of the with block.
CounterWrite(w) ==
    /\ pc[w] = "c_write"
    /\ hit_counter' = Store(hit_counter, ReqKey(req[w].path), current[w] + 1)
    /\ counter_lock' = IF counter_lock = w THEN 0 ELSE counter_lock
    /\ pc' = [pc EXCEPT ![w] = "serve"]
    /\ UNCHANGED << env, rl_state, rl_lock, entered, base, admitted, conn, locals >>

\* Lines 148-164: the extension gate, getsize/getmtime, and the file read
\* of a GET.
Serve(w) ==
    /\ pc[w] = "serve"
    /\ IF Lower(SplitExt(fs_path[w])) \notin ALLOWED_MIME
       THEN /\ SendAndReturn(w, 404)
            /\ UNCHANGED fs_log
       ELSE /\ SendBody(w, 200, IF req[w].method = "GET" THEN FileBody ELSE NoBody)
            /\ fs_log' = [fs_log EXCEPT ![w] = @ \cup {fs_path[w]}]
    /\ UNCHANGED << env, shared, data, req, tnow, current, fs_path >>

\* ------------------------------------------------------------------ inputs

P_file   == << Slash, "a", Dot, "html" >>
P_txt    == << Slash, "n", Dot, "txt" >>
P_dir    == << Slash, "d" >>
P_denied == << Slash, "p" >>
P_escape == << Slash, "%2e", "%2e", Slash, "s", Dot, "html" >>
P_miss   == << Slash, "zz" >>
P_ipv6   == << Slash, Slash, "[" >>

Line(m, p) == << m, p, Version >>

\* Command lines: --delay, --counter-mode, --counter-sleep, --rate, --burst.
Config(d, m, s, r, b) ==
    [delay |-> d, counter_mode |-> m, counter_sleep |-> s, rate |-> r, burst |-> b]

\* ----------------------------------------------------------- specification

InitWith(cfgs, n) ==
    /\ args \in cfgs
    /\ toOpen = n
    /\ now = 0
    /\ queue = << >>
    /\ rl_state = empty
    /\ rl_lock = 0
    /\ hit_counter = empty
    /\ counter_lock = 0
    /\ entered = empty
    /\ base = empty
    /\ admitted = empty
    /\ pc = [w \in Workers |-> "idle"]
    /\ conn = [w \in Workers |-> NoConn]
    /\ data = [w \in Workers |-> NoData]
    /\ req = [w \in Workers |-> NoReq]
    /\ tnow = [w \in Workers |-> 0]
    /\ current = [w \in Workers |-> 0]
    /\ fs_path = [w \in Workers |-> None]
    /\ fs_log = [w \in Workers |-> {}]

\* The whole server: every step of the handler, clients that send request
\* lines of every kind, in one piece or two, or hang up, or stall.
ReqLines == { Line("GET", P_file), Line("HEAD", P_txt), Line("POST", P_file),
              Line("GET", P_denied), Line("HEAD", P_dir), Line("GET", P_escape),
              Line("GET", P_ipv6),
              << "GET", P_file >> }

Configs == { Config(1, "locked", 0, 1, << >>), Config(0, "naive", 1, 0, << >>) }

Init == InitWith(Configs, MaxConns)

Next ==
    \/ \E ip \in IPs : Accept(ip)
    \/ Tick
    \/ \E w \in Workers :
          \/ Start(w)
          \/ Reclaim(w)
          \/ RecvLine(w, ReqLines, BOOLEAN)
          \/ RecvMarker(w)
          \/ RecvEof(w)
          \/ RecvTimeout(w)
          \/ Parse(w)
          \/ Delay(w)
          \/ MethodCheck(w)
          \/ RateEnter(w)
          \/ RateAcquire(w)
          \/ RateUpdate(w)
          \/ Resolve(w)
          \/ Listing(w)
          \/ CounterAcquire(w)
          \/ CounterRead(w)
          \/ CounterSleep(w)
          \/ CounterWrite(w)
          \/ Serve(w)

Spec == Init /\ [][Next]_vars

\* The hit counter under contention: the limiter is off and the clients
\* send complete GET and HEAD requests for two files.
CounterLines == { Line("GET", P_file), Line("HEAD", P_txt) }

CounterConfigs == { Config(0, m, s, 0, << >>) : m \in {"naive", "locked"}, s \in {0, 1} }

InitCounter == InitWith(CounterConfigs, MaxConns)

NextCounter ==
    \/ \E ip \in IPs : Accept(ip)
    \/ \E w \in Workers :
          \/ Start(w)
          \/ Reclaim(w)
          \/ RecvLine(w, CounterLines, {TRUE})
          \/ Parse(w)
          \/ MethodCheck(w)
          \/ RateEnter(w)
          \/ Resolve(w)
          \/ CounterAcquire(w)
          \/ CounterRead(w)
          \/ CounterSleep(w)
          \/ CounterWrite(w)
          \/ Serve(w)

SpecCounter == InitCounter /\ [][NextCounter]_vars

\* The rate limiter under contention: the clock runs, the clients send
\* complete requests with an allowed and a refused method.
RateLines == { Line("GET", P_miss), Line("POST", P_file) }

RateConfigs == { Config(0, "locked", 0, r, b) : r \in {-1, 0, 1, 2}, b \in {<< >>, << 2 >>} }

InitRate == InitWith(RateConfigs, MaxConns)

NextRate ==
    \/ \E ip \in IPs : Accept(ip)
    \/ Tick
    \/ \E w \in Workers :
          \/ Start(w)
          \/ Reclaim(w)
          \/ RecvLine(w, RateLines, {TRUE})
          \/ Parse(w)
          \/ MethodCheck(w)
          \/ RateEnter(w)
          \/ RateAcquire(w)
          \/ RateUpdate(w)
          \/ Resolve(w)

SpecRate == InitRate /\ [][NextRate]_vars

\* The path resolver on every raw request path of up to MaxPathLen lexemes:
\* one connection, a complete GET request, the limiter off.
PathSyms == { Slash, Dot, "%2e", "%2f", "?", "[", "a" }

PathsOfLen(n) == [1..n -> PathSyms]

AllPaths == UNION { PathsOfLen(n) : n \in 0..MaxPathLen }

PathLines == { Line("GET", p) : p \in AllPaths \ { << >> } }

InitPath == InitWith({ Config(0, "naive", 0, 0, << >>) }, 1)

NextPath ==
    \/ \E ip \in IPs : Accept(ip)
    \/ \E w \in Workers :
          \/ Start(w)
          \/ Reclaim(w)
          \/ RecvLine(w, PathLines, {TRUE})
          \/ Parse(w)
          \/ MethodCheck(w)
          \/ RateEnter(w)
          \/ Resolve(w)
          \/ Listing(w)
          \/ CounterRead(w)
          \/ CounterWrite(w)
          \/ Serve(w)

SpecPath == InitPath /\ [][NextPath]_vars

\* A client that opens its next connection when the last one is done, as
\* tests/rate_limit_benchmark.py does: four requests from one address.
AcceptNext(ip) ==
    /\ queue = << >>
    /\ \A w \in Workers : pc[w] = "idle"
    /\ Accept(ip)

BurstConfigs == { Config(0, "locked", 0, 2, b) : b \in {<< >>, << 2 >>} }

InitBurst == InitWith(BurstConfigs, 4)

NextBurst ==
    \/ AcceptNext("ip1")
    \/ Tick
    \/ \E w \in Workers :
          \/ Start(w)
          \/ Reclaim(w)
          \/ RecvLine(w, { Line("GET", P_miss) }, {TRUE})
          \/ Parse(w)
          \/ MethodCheck(w)
          \/ RateEnter(w)
          \/ RateAcquire(w)
          \/ RateUpdate(w)
          \/ Resolve(w)

SpecBurst == InitBurst /\ [][NextBurst]_vars

\* The method gate in front of the limiter and the counter: refused and
\* allowed methods for the same file, the limiter on, the delay on.
MethodLines == { Line("POST", P_file), Line("GET", P_file) }

InitMethod == InitWith({ Config(1, "locked", 0, 1, << >>) }, MaxConns)

NextMethod ==
    \/ \E ip \in IPs : Accept(ip)
    \/ Tick
    \/ \E w \in Workers :
          \/ Start(w)
          \/ Reclaim(w)
          \/ RecvLine(w, MethodLines, {TRUE})
          \/ Parse(w)
          \/ Delay(w)
          \/ MethodCheck(w)
          \/ RateEnter(w)
          \/ RateAcquire(w)
          \/ RateUpdate(w)
          \/ Resolve(w)
          \/ CounterAcquire(w)
          \/ CounterRead(w)
          \/ CounterWrite(w)
          \/ Serve(w)

SpecMethod == InitMethod /\ [][NextMethod]_vars

\* Files and listings: GETs of a servable file (plain and with a query
\* string), of a file of an unknown type and of the root directory, behind
\* an enabled rate limiter.
P_root  == << Slash >>
P_query == << Slash, "a", Dot, "html", "?", "q" >>

FileLines == { Line("GET", P_file), Line("GET", P_query), Line("GET", P_txt),
               Line("GET", P_root) }

InitFile == InitWith({ Config(0, "locked", 0, 1, << >>) }, MaxConns)

NextFile ==
    \/ \E ip \in IPs : Accept(ip)
    \/ \E w \in Workers :
          \/ Start(w)
          \/ Reclaim(w)
          \/ RecvLine(w, FileLines, {TRUE})
          \/ Parse(w)
          \/ MethodCheck(w)
          \/ RateEnter(w)
          \/ RateAcquire(w)
          \/ RateUpdate(w)
          \/ Resolve(w)
          \/ Listing(w)
          \/ CounterAcquire(w)
          \/ CounterRead(w)
          \/ CounterWrite(w)
          \/ Serve(w)

SpecFile == InitFile /\ [][NextFile]_vars

\* The pool under peers of every pace: one connection more than there are
\* workers, and peers that send the request at once, or line by line
\* without ever ending the headers, or close, or fall silent.  The threads
\* of the pool are scheduled fairly: an idle worker takes a queued task, a
\* running handler takes its next step, and a recv call returns (with
\* bytes, with b"" or with socket.timeout).  What the peers do is not
\* subject to any fairness.
LiveConns == NumWorkers + 1

LiveLines == { Line("GET", P_miss) }

InitLive == InitWith({ Config(0, "locked", 0, 0, << >>) }, LiveConns)

Recv(w) ==
    \/ RecvLine(w, LiveLines, BOOLEAN)
    \/ RecvMore(w)
    \/ RecvMarker(w)
    \/ RecvEof(w)
    \/ RecvTimeout(w)

Handle(w) ==
    \/ Parse(w)
    \/ MethodCheck(w)
    \/ RateEnter(w)

\* What Resolve(w) does to pc.  Resolve(w) is enabled exactly when pc[w] is
\* "resolve" and every step of it moves pc[w] on, so weak fairness of this
\* action on pc is weak fairness of Resolve(w).
ResolveMoves(w) ==
    /\ pc[w] = "resolve"
    /\ \E to \in { "listing", "count", "returned" } : pc' = [pc EXCEPT ![w] = to]

NextLive ==
    \/ \E ip \in IPs : Accept(ip)
    \/ \E w \in Workers :
          \/ Start(w)
          \/ Reclaim(w)
          \/ Recv(w)
          \/ Handle(w)
          \/ Resolve(w)

FairLive ==
    \A w \in Workers :
        /\ WF_vars(Start(w))
        /\ WF_vars(Reclaim(w))
        /\ WF_vars(Recv(w))
        /\ WF_vars(Handle(w))
        /\ WF_pc(ResolveMoves(w))

SpecLive == InitLive /\ [][NextLive]_vars /\ FairLive

\* Sequential calls of the limiter: clients at two addresses that send one
\* request after the other has been answered, at every pace the clock
\* allows, against limiters of rate 1 and 2 with the burst given or not.
SeqConns == MaxConns + 2

SeqConfigs == { Config(0, "locked", 0, r, b) : r \in {1, 2}, b \in {<< >>, << 2 >>} }

InitSeq == InitWith(SeqConfigs, SeqConns)

NextSeq ==
    \/ \E ip \in IPs : AcceptNext(ip)
    \/ Tick
    \/ \E w \in Workers :
          \/ Start(w)
          \/ Reclaim(w)
          \/ RecvLine(w, { Line("GET", P_miss) }, {TRUE})
          \/ Parse(w)
          \/ MethodCheck(w)
          \/ RateEnter(w)
          \/ RateAcquire(w)
          \/ RateUpdate(w)
          \/ Resolve(w)

SpecSeq == InitSeq /\ [][NextSeq]_vars

\* The limiter under concurrent calls: one connection more than the bound
\* of the other specifications, all from one address, handled by workers
\* that sample the clock and take rl_lock in any order.
AdmitConns == MaxConns + 1

AdmitConfigs == { Config(0, "locked", 0, 1, << >>), Config(0, "locked", 0, 1, << 2 >>),
                  Config(0, "locked", 0, 2, << >>), Config(0, "locked", 0, 2, << 1 >>) }

InitAdmit == InitWith(AdmitConfigs, AdmitConns)

NextAdmit ==
    \/ Accept("ip1")
    \/ Tick
    \/ \E w \in Workers :
          \/ Start(w)
          \/ Reclaim(w)
          \/ RecvLine(w, { Line("GET", P_miss) }, {TRUE})
          \/ Parse(w)
          \/ MethodCheck(w)
          \/ RateEnter(w)
          \/ RateAcquire(w)
          \/ RateUpdate(w)
          \/ Resolve(w)

SpecAdmit == InitAdmit /\ [][NextAdmit]_vars

\* The naive counter under overlap: one connection more than the bound of
\* the other specifications, every request a GET of the same servable
\* file, with and without the sleep between the read and the write.
NaiveConns == MaxConns + 1

NaiveConfigs == { Config(0, "naive", s, 0, << >>) : s \in {0, 1} }

InitNaive == InitWith(NaiveConfigs, NaiveConns)

NextNaive ==
    \/ Accept("ip1")
    \/ \E w \in Workers :
          \/ Start(w)
          \/ Reclaim(w)
          \/ RecvLine(w, { Line("GET", P_file) }, {TRUE})
          \/ Parse(w)
          \/ MethodCheck(w)
          \/ RateEnter(w)
          \/ Resolve(w)
          \/ CounterRead(w)
          \/ CounterSleep(w)
          \/ CounterWrite(w)
          \/ Serve(w)

SpecNaive == InitNaive /\ [][NextNaive]_vars

\* The two locks: the limiter enabled with a burst of two, the counter
\* locked, with and without the sleep inside the critical section, and one
\* connection more than the burst, all GETs of the same file from one
\* address.  A thread inside a critical section keeps running (the sleep
\* returns), and a thread waiting for a lock that stays free takes it.
LockConns == MaxConns + 1

LockConfigs == { Config(0, "locked", s, 1, << 2 >>) : s \in {0, 1} }

InitLocks == InitWith(LockConfigs, LockConns)

InCritical(w) ==
    \/ RateUpdate(w)
    \/ CounterRead(w)
    \/ CounterSleep(w)
    \/ CounterWrite(w)

NextLocks ==
    \/ Accept("ip1")
    \/ \E w \in Workers :
          \/ Start(w)
          \/ Reclaim(w)
          \/ RecvLine(w, { Line("GET", P_file) }, {TRUE})
          \/ Parse(w)
          \/ MethodCheck(w)
          \/ RateEnter(w)
          \/ RateAcquire(w)
          \/ Resolve(w)
          \/ CounterAcquire(w)
          \/ InCritical(w)
          \/ Serve(w)

FairLocks ==
    \A w \in Workers :
        /\ WF_vars(InCritical(w))
        /\ WF_vars(RateAcquire(w))
        /\ WF_vars(CounterAcquire(w))

SpecLocks == InitLocks /\ [][NextLocks]_vars /\ FairLocks

\* ------------------------------------------------------------------ claims

Key(w) == ReqKey(req[w].path)
Written(w) == conn[w].written
InCounter(w, k) == pc[w] \in { "c_read", "c_sleep", "c_write" } /\ Key(w) = k
Updating(k) == { w \in Workers : InCounter(w, k) }

\* C1: in locked mode, for every key, the counter equals the number of
\* increments begun minus those still between their read and their write;
\* so once N concurrent increments of a key have finished, its value is
\* exactly N more than before, with or without the sleep.
C1_LockedCountsEveryIncrement ==
    args.counter_mode = "locked" =>
        /\ DOMAIN hit_counter \subseteq DOMAIN entered
        /\ \A k \in DOMAIN entered :
              Get(hit_counter, k) + Cardinality(Updating(k)) = entered[k]

\* Two handlers contend for the same key: one sleeps inside the critical
\* section while the other waits for counter_lock.
C1_Witness ==
    /\ args.counter_mode = "locked"
    /\ args.counter_sleep > 0
    /\ \E w1, w2 \in Workers :
          /\ pc[w1] = "c_sleep" /\ pc[w2] = "count"
          /\ Key(w1) = P_file /\ Key(w2) = P_file

\* C2: in naive mode the read, the sleep and the write of an increment run
\* without mutual exclusion: counter_lock is never held, and the counter may
\* fall short of, but never exceeds, the number of increments begun.
C2_NaiveHasNoExclusion ==
    args.counter_mode = "naive" =>
        /\ counter_lock = 0
        /\ \A k \in DOMAIN hit_counter : hit_counter[k] <= Get(entered, k)

\* A lost update: with a nonzero sleep, two increments of one key have both
\* finished and the counter shows one.
C2_Witness ==
    /\ args.counter_mode = "naive"
    /\ args.counter_sleep > 0
    /\ \A w \in Workers : pc[w] = "idle"
    /\ Get(entered, P_file) = 2
    /\ Get(hit_counter, P_file) = 1

\* C3: every stored token count lies between 0 and burst.
C3_TokensInRange ==
    \A ip \in DOMAIN rl_state :
        /\ 0 <= rl_state[ip].tokens
        /\ rl_state[ip].tokens <= BurstOf(args) * TicksPerSec

\* The join the claim speaks of, computed directly: start from the root's
\* components, drop "" and ".", let ".." remove the last component (if any)
\* and let any other component be added.
RECURSIVE Walk(_, _)
Walk(stack, comps) ==
    IF comps = << >> THEN stack
    ELSE LET c == Head(comps)
         IN  IF c = << >> \/ c = << Dot >> THEN Walk(stack, Tail(comps))
             ELSE IF c = DotDot
                  THEN Walk(IF stack = << >> THEN stack
                            ELSE SubSeq(stack, 1, Len(stack) - 1), Tail(comps))
             ELSE Walk(Append(stack, c), Tail(comps))

RootComps == DropEmptyAndDot(SplitOn(Root, Slash))

Landing(raw) == Walk(RootComps, SplitOn(Unquote(UrlPath(raw)), Slash))

Escapes(raw) ==
    LET l == Landing(raw)
    IN  Len(l) < Len(RootComps) \/ SubSeq(l, 1, Len(RootComps)) # RootComps

\* p is the root or lies below it, textually.
Under(p) == p = Root \/ StartsWith(p, Root \o << Slash >>)

\* The worker's run has been through safe_join.
Resolved(w) ==
    \/ pc[w] \in { "listing", "count", "c_read", "c_sleep", "c_write", "serve" }
    \/ pc[w] = "returned" /\ Written(w) # << >> /\ Written(w)[1] \in { 200, 404 }

Opened == 4 - toOpen

Allowed(w) == pc[w] = "resolve" \/ (pc[w] = "returned" /\ Written(w) = << 404 >>)
Denied(w) == pc[w] = "returned" /\ Written(w) = << 429 >>

\* While the clock has not moved, the first and second call are allowed and
\* the third is denied and answered 429.
C5_FirstThree ==
    \A w \in Workers :
        (args.rate = 2 /\ BurstOf(args) = 2 /\ now = 0 /\ (Allowed(w) \/ Denied(w))) =>
            /\ Opened <= 2 => Allowed(w)
            /\ Opened = 3 => Denied(w)

\* The fourth call, sampled at least half a second after a third call that
\* was made at time 0, leaves the critical section allowed.
C5_Fourth ==
    \A w \in Workers :
        ( /\ args.rate = 2 /\ BurstOf(args) = 2
          /\ Opened = 4
          /\ pc[w] = "rl_crit" /\ pc'[w] # "rl_crit"
          /\ rl_state["ip1"].last = 0
          /\ 2 * tnow[w] >= TicksPerSec ) => pc'[w] = "resolve"

\* C5: with rate 2 and burst 2, three calls for a fresh address in zero time
\* are allowed, allowed, denied (429), and a fourth call at least 0.5 s after
\* the third is allowed.
C5_BurstThenRefill == [](C5_FirstThree) /\ [][C5_Fourth]_vars

\* The fourth call, half a second after the burst, has been allowed with
\* the token the wait refilled.
C5_Witness ==
    /\ Opened = 4
    /\ "ip1" \in DOMAIN rl_state
    /\ \E w \in Workers :
          /\ pc[w] = "resolve"
          /\ 2 * tnow[w] = TicksPerSec
          /\ rl_state["ip1"] = [tokens |-> 0, last |-> tnow[w]]

\* C6: with rate <= 0 the limiter never acts: no bucket is ever stored, rl_lock
\* is never taken, no call waits or enters the critical section, and no
\* request is answered 429.
C6_DisabledIsBypass ==
    args.rate <= 0 =>
        /\ rl_state = empty
        /\ rl_lock = 0
        /\ \A w \in Workers :
              /\ pc[w] \notin { "rl_wait", "rl_crit" }
              /\ \A i \in 1..Len(Written(w)) : Written(w)[i] # 429

\* With rate 0, two calls for one address have both returned allowed.
C6_Witness ==
    /\ args.rate = 0
    /\ \E w1, w2 \in Workers :
          /\ w1 # w2
          /\ pc[w1] = "resolve" /\ pc[w2] = "resolve"
          /\ conn[w1].ip = conn[w2].ip

\* The request line received has three words and a method other than GET
\* and HEAD.
Refused(w) ==
    /\ Len(data[w].words) = 3
    /\ data[w].words[1] \notin { "GET", "HEAD" }

C7_Step ==
    \A w \in Workers :
        (Refused(w) /\ pc'[w] # pc[w]) =>
            /\ rl_state' = rl_state
            /\ rl_lock' = rl_lock
            /\ hit_counter' = hit_counter
            /\ counter_lock' = counter_lock
            /\ pc'[w] \in { "parse", "delay", "method", "returned", "idle" }
            /\ (pc[w] = "method" /\ pc'[w] = "returned") => Written(w)' = << 405 >>
            /\ pc[w] = "method" => pc'[w] = "returned"

\* C7: every step of a handler whose request has a method other than GET and
\* HEAD leaves the rate-limiter state and the hit counter as they are, never
\* enters the rate check, and the method check answers 405.
C7_RefusedMethodTouchesNothing == [][C7_Step]_vars

\* A POST has been answered 405 while the limiter is on, and no bucket
\* exists for its address.
C7_Witness ==
    \E w \in Workers :
        /\ args.rate > 0
        /\ pc[w] = "returned"
        /\ req[w].method = "POST"
        /\ Written(w) = << 405 >>
        /\ conn[w].ip \notin DOMAIN rl_state

\* Header reading ended without a timeout: the marker was seen or the peer
\* closed.
GotRequest(w) == data[w].eoh \/ data[w].eof

\* C8: a handler run that got a request has written exactly one response
\* when it ends.
C8_ExactlyOneResponse ==
    \A w \in Workers :
        (pc[w] = "returned" /\ GotRequest(w)) => Len(Written(w)) = 1

\* C9: when handle_request ends, it has closed the connection.
C9_ClosedOnReturn ==
    \A w \in Workers : pc[w] = "returned" => ~conn[w].open

\* C10: once the peer has closed during header reading, the handler writes
\* nothing, runs none of the later states and does not raise.
C10_SilentAbort ==
    \A w \in Workers :
        data[w].eof =>
            /\ pc[w] \in { "parse", "returned" }
            /\ Written(w) = << >>
            /\ ~conn[w].raised


\* C11: a GET or HEAD of an existing directory whose enumeration the
\* filesystem denies still gets one complete 200 answer, whose listing holds
\* a single explanatory row, and no error leaves the handler.
DeniedDirRun(w) ==
    /\ pc[w] = "returned"
    /\ req[w].method \in {"GET", "HEAD"}
    /\ fs_path[w] # None
    /\ fs_path[w] \in FsDenied

C11_DeniedListingStillAnswers ==
    \A w \in Workers :
        DeniedDirRun(w) =>
            /\ ~conn[w].raised
            /\ Written(w) = << 200 >>
            /\ req[w].method = "GET" =>
                   /\ conn[w].body.kind = "listing"
                   /\ Cardinality(conn[w].body.rows) = 1

\* C13: a GET or HEAD that passed the rate check and resolved to an existing
\* file whose lower-cased extension is none of .html, .png, .pdf is answered
\* 404, and the file's content is neither read nor sent.
ServedTypes == { << Dot, "html" >>, << Dot, "png" >>, << Dot, "pdf" >> }

UnknownTypeRun(w) ==
    /\ fs_path[w] # None
    /\ fs_path[w] \in FsFiles
    /\ Lower(SplitExt(fs_path[w])) \notin ServedTypes

C13_UnknownTypeIs404 ==
    \A w \in Workers :
        UnknownTypeRun(w) =>
            /\ conn[w].body.kind # "file"
            /\ \A i \in 1..Len(Written(w)) : Written(w)[i] = 404
            /\ pc[w] = "returned" => Written(w) = << 404 >>

C13_Witness ==
    \E w \in Workers :
        /\ UnknownTypeRun(w)
        /\ req[w].method = "GET"
        /\ args.rate > 0
        /\ pc[w] = "returned"
        /\ Written(w) = << 404 >>

\* C14: only a request that ends in the 200 of a servable file changes the
\* hit counter; a run that ends in 400, 405, 429, 404 (unknown type
\* included) or in a directory listing leaves it as it was.
C14_Step ==
    \A w \in Workers :
        (pc'[w] # pc[w] /\ hit_counter' # hit_counter) =>
            /\ fs_path[w] # None
            /\ fs_path[w] \in FsFiles
            /\ Lower(SplitExt(fs_path[w])) \in ServedTypes

C14_OnlyServedFilesCount == [][C14_Step]_vars

\* C15: a served file is counted under the key the listing of its parent
\* looks up: with the server at rest in locked mode, the row of f in the
\* listing of the root shows as many hits as requests were counted for f,
\* whatever raw path they named f by.
RECURSIVE SumOver(_, _)
SumOver(f, S) ==
    IF S = {} THEN 0
    ELSE LET k == CHOOSE x \in S : TRUE IN f[k] + SumOver(f, S \ {k})

CountedFor(f) ==
    SumOver(entered, { k \in DOMAIN entered : SafeJoin(Root, k) = f })

AtRest == \A w \in Workers : pc[w] \in { "idle", "returned" }

C15_ListingShowsHits ==
    (args.counter_mode = "locked" /\ AtRest) =>
        \A f \in { g \in FsFiles : EntryDir(g) = Root /\ Lower(SplitExt(g)) \in ServedTypes } :
            \E row \in dir_listing_html(hit_counter, P_root, Root) :
                /\ row.name = EntryName(f)
                /\ ~row.dir
                /\ row.hits = CountedFor(f)

\* C12: at most NumWorkers handlers run at any moment; a connection accepted
\* while every worker is busy is not dropped: it leaves the queue only by
\* being handed, oldest first, to a worker that starts handling it; and
\* every accepted connection is eventually handed to a worker.
Busy == { w \in Workers : pc[w] # "idle" }
Accepted == LiveConns - toOpen
Started == Accepted - Len(queue)

C12_QueueStep ==
    queue' # queue =>
        \/ \E ip \in IPs : queue' = Append(queue, ip)
        \/ /\ queue # << >>
           /\ queue' = Tail(queue)
           /\ \E w \in Workers : /\ pc[w] = "idle"
                                 /\ pc'[w] = "recv"
                                 /\ conn'[w].ip = Head(queue)

C12_PoolServesEveryConnection ==
    /\ [](Cardinality(Busy) <= NumWorkers)
    /\ [][C12_QueueStep]_vars
    /\ \A n \in 1..LiveConns : (Accepted >= n) ~> (Started >= n)

\* C17: the header-reading phase of every connection ends, whatever the
\* peer does: a handler in the read loop eventually leaves it.
C17_ReadingHeadersEnds ==
    \A w \in Workers : (pc[w] = "recv") ~> (pc[w] # "recv")

\* C16: with rate > 0 and calls made one after another, each call of the
\* limiter is the reference step: an address not seen before starts at
\* (burst, now); refill is min(burst, tokens + rate * (now - last)); with
\* refill >= 1 the call is allowed and (refill - 1, now) is stored, else it
\* is denied and (refill, now) is stored, which is never less than the
\* tokens the bucket held; no other address's bucket changes.
C16_Step ==
    \A w \in Workers :
        (args.rate > 0 /\ pc[w] = "rl_crit" /\ pc'[w] # "rl_crit") =>
            LET ip    == conn[w].ip
                t     == tnow[w]
                cap   == BurstOf(args) * TicksPerSec
                start == IF ip \in DOMAIN rl_state THEN rl_state[ip]
                         ELSE [tokens |-> cap, last |-> t]
                grown == start.tokens + args.rate * (t - start.last)
                refill == IF grown < cap THEN grown ELSE cap
            IN  /\ \A other \in DOMAIN rl_state \ {ip} :
                       rl_state'[other] = rl_state[other]
                /\ DOMAIN rl_state' = DOMAIN rl_state \cup {ip}
                /\ IF refill >= TicksPerSec
                   THEN /\ pc'[w] = "resolve"
                        /\ rl_state'[ip] = [tokens |-> refill - TicksPerSec, last |-> t]
                   ELSE /\ pc'[w] = "returned"
                        /\ conn'[w].written = << 429 >>
                        /\ rl_state'[ip] = [tokens |-> refill, last |-> t]
                        /\ refill >= start.tokens

C16_MatchesReferenceStep == [][C16_Step]_vars

\* A denied call has stored the part of a token that the wait refilled.
C16_Witness ==
    \E w \in Workers :
        /\ pc[w] = "returned"
        /\ Written(w) = << 429 >>
        /\ tnow[w] > 0
        /\ rl_state[conn[w].ip].last = tnow[w]
        /\ rl_state[conn[w].ip].tokens > 0
        /\ rl_state[conn[w].ip].tokens < TicksPerSec

\* C18: with rate > 0 and burst >= 1, for every address and under every
\* interleaving of concurrent calls, the calls allowed whose sampled
\* timestamp lies in an interval of length T number at most burst + rate * T
\* (here in ticks: both sides times TicksPerSec).
AdmittedIn(ip, from, to) ==
    SumOver(admitted, { k \in DOMAIN admitted : k[1] = ip /\ from <= k[2] /\ k[2] <= to })

C18_AdmissionBound ==
    (args.rate > 0 /\ BurstOf(args) >= 1) =>
        \A ip \in IPs : \A from \in 0..now : \A to \in from..now :
            TicksPerSec * AdmittedIn(ip, from, to)
                <= TicksPerSec * BurstOf(args) + args.rate * (to - from)

\* Calls whose updates ran in the opposite order of their timestamps (the
\* bucket went negative) and an interval that is filled to the bound.
C18_Witness ==
    \E ip \in IPs :
        /\ ip \in DOMAIN rl_state
        /\ rl_state[ip].tokens < 0
        /\ \E from \in 0..now : \E to \in from..now :
              /\ to > from
              /\ TicksPerSec * AdmittedIn(ip, from, to)
                    = TicksPerSec * BurstOf(args) + args.rate * (to - from)

\* C19: in naive mode, when the increments of a key that began with value v
\* and overlapped one another have all been written (N of them, no other
\* writer), the key's value is at least v + 1 and at most v + N, whatever
\* the interleaving; on the way a write may lower the value.
C19_NaiveFinalInRange ==
    args.counter_mode = "naive" =>
        \A k \in DOMAIN base :
            InFlight(k) = {} =>
                /\ Get(hit_counter, k) >= base[k].value + 1
                /\ Get(hit_counter, k) <= base[k].value + (Get(entered, k) - base[k].entered)

\* Three overlapping increments, one of them about to write less than the
\* key holds.
C19_Witness ==
    /\ args.counter_mode = "naive"
    /\ \E w \in Workers :
          /\ pc[w] = "c_write"
          /\ Key(w) \in DOMAIN base
          /\ Get(entered, Key(w)) - base[Key(w)].entered >= 2
          /\ current[w] + 1 < Get(hit_counter, Key(w))

\* C20: the two locks cannot deadlock the pool: no handler holds rl_lock and
\* counter_lock at once, a lock is held only by a handler inside the
\* matching critical section (it is released on the allowed and on the
\* denied return, and at the end of the counter block), and a worker that
\* waits for either lock eventually acquires it, the counter sleep included.
C20_Held ==
    /\ \A w \in Workers : ~(rl_lock = w /\ counter_lock = w)
    /\ rl_lock # 0 => pc[rl_lock] = "rl_crit"
    /\ counter_lock # 0 => pc[counter_lock] \in { "c_read", "c_sleep", "c_write" }
    /\ \A w \in Workers : pc[w] = "rl_crit" => rl_lock = w

C20_LocksNeverDeadlock ==
    /\ []C20_Held
    /\ \A w \in Workers : (pc[w] = "rl_wait") ~> (pc[w] = "rl_crit")
    /\ \A w \in Workers : (pc[w] = "count") ~> (pc[w] = "c_read")

\* One worker sleeps inside counter_lock, another waits for it, and the
\* limiter has already turned a call away.
C20_Witness ==
    /\ args.counter_sleep > 0
    /\ \E holder, waiter \in Workers :
          /\ counter_lock = holder
          /\ pc[holder] = "c_sleep"
          /\ pc[waiter] = "count"
    /\ \E ip \in DOMAIN rl_state : rl_state[ip].tokens < TicksPerSec

====
